---- MODULE Spec2Model ----
(***************************************************************************)
(* State-machine model of src/implementation/pyqt6_ribbon_ui_guide.py:     *)
(* main() builds a LaserCAMProRibbonUI window (command surface, splitter   *)
(* workspace, status bar), shows it and runs the Qt event loop, in which   *)
(* triggered QActions call the window's handlers one at a time on the GUI  *)
(* thread.                                                                 *)
(***************************************************************************)
EXTENDS Integers, Sequences, FiniteSets

\* Length of the event queue in the specification without history (FairSpec).
MaxQueue == 1

\* Number of QAction activations the user posts in one run of the event loop.
MaxEvents == 3

----------------------------------------------------------------------------
\* The handlers connected by create_action in init_ribbon_interface (lines 68-101).
RibbonHandlers ==
    { "new_file", "open_file", "save_file", "import_dxf",
      "create_2d_profile", "create_3d_profile", "create_pocket", "create_drill",
      "auto_nest", "manual_nest", "optimize_nesting",
      "start_simulation", "pause_simulation", "stop_simulation" }

\* FallbackHandlers of a toolbar that also had a Stop action.
FallbackHandlersWithStop ==
    { "new_file", "open_file", "save_file",
      "create_2d_profile", "create_3d_profile", "auto_nest",
      "start_simulation", "stop_simulation" }

\* The handlers connected by create_action in init_fallback_toolbar (lines 116-128).
FallbackHandlers ==
    { "new_file", "open_file", "save_file",
      "create_2d_profile", "create_3d_profile", "auto_nest",
      "start_simulation" }

\* Every handler method of the window (lines 473-515).
Handlers == RibbonHandlers \cup FallbackHandlers

\* The text each handler passes to status_label.setText (lines 473-514).
StatusText(h) ==
    CASE h = "new_file"          -> "Creating new file..."
      [] h = "open_file"         -> "Opening file..."
      [] h = "save_file"         -> "Saving file..."
      [] h = "import_dxf"        -> "Importing DXF file..."
      [] h = "create_2d_profile" -> "Creating 2D profile toolpath..."
      [] h = "create_3d_profile" -> "Creating 3D profile toolpath..."
      [] h = "create_pocket"     -> "Creating pocket toolpath..."
      [] h = "create_drill"      -> "Creating drill operations..."
      [] h = "auto_nest"         -> "Running automatic nesting optimization..."
      [] h = "manual_nest"       -> "Entering manual nesting mode..."
      [] h = "optimize_nesting"  -> "Optimizing nesting layout..."
      [] h = "start_simulation"  -> "Starting simulation..."
      [] h = "pause_simulation"  -> "Simulation paused"
      [] h = "stop_simulation"   -> "Simulation stopped"

\* ProgressAfter with pause_simulation hiding the bar as stop_simulation does.
ProgressAfterPauseHides(h, vis) ==
    IF h = "start_simulation" THEN TRUE
    ELSE IF h \in {"stop_simulation", "pause_simulation"} THEN FALSE
    ELSE vis

\* ProgressAfter with stop_simulation lacking its setVisible(False).
ProgressAfterStopKeeps(h, vis) ==
    IF h = "start_simulation" THEN TRUE ELSE vis

\* The statements of a handler after its setText: progress_bar.setVisible
\* in start_simulation (line 508) and stop_simulation (line 515), nothing
\* in the others.  vis is the visibility before, the result the one after.
ProgressAfter(h, vis) ==
    IF h = "start_simulation" THEN TRUE
    ELSE IF h = "stop_simulation" THEN FALSE
    ELSE vis

\* The argument of main_splitter.setSizes (line 153).
DefaultSizes == <<300, 1000, 300>>

\* The steps of LaserCAMProRibbonUI.__init__ (lines 49-52), in order.
InitSteps == <<"init_ribbon_interface", "init_workspace",
               "init_status_system", "init_themes">>

InitStepSet == { InitSteps[i] : i \in 1..Len(InitSteps) }

\* What the environment may hold where a persisted layout would be; the
\* program never reads it.
LayoutRecords == { "missing", "corrupt", "present" }

----------------------------------------------------------------------------
VARIABLES
    pc,               \* position of main(): "start", an init step, "constructed",
                      \* "shown", "running", "aborted", "exited"
    ribbonImportable, \* environment: does `from pyqtribbon import ...` succeed
    layoutRecord,     \* environment: state of a persisted layout record
    faultAt,          \* environment: the init step in which a call raises, or "none"
    surface,          \* "none", "ribbon" or "fallback"
    installed,        \* handlers that have a QAction on the installed surface
    splitterSizes,    \* sizes given to main_splitter, <<>> before init_workspace
    status_label,     \* text of self.status_label, "" before it exists
    progress_visible, \* visibility of self.progress_bar
    queue,            \* activations posted to the event loop, not yet delivered
    wsState,          \* "Idle": event loop waiting; "Dispatching": inside a handler
    current,          \* the handler being executed, "none" when Idle
    arrived,          \* history: every activation posted, in arrival order
    done,             \* history: every handler that has returned, in order
    loopEntered,      \* history: app.exec() was called
    exitCode          \* process exit status, NoExit while the process runs

vars == <<pc, ribbonImportable, layoutRecord, faultAt, surface, installed,
          splitterSizes, status_label, progress_visible, queue, wsState,
          current, arrived, done, loopEntered, exitCode>>

env == <<ribbonImportable, layoutRecord, faultAt>>
window == <<surface, installed, splitterSizes, status_label, progress_visible>>
loop == <<queue, wsState, current, arrived, done>>

\* exitCode while the process has not exited.
NoExit == -1

Init ==
    /\ pc = "start"
    /\ ribbonImportable \in BOOLEAN
    /\ layoutRecord \in LayoutRecords
    /\ faultAt \in InitStepSet \cup {"none"}
    /\ surface = "none"
    /\ installed = {}
    /\ splitterSizes = <<>>
    /\ status_label = ""
    /\ progress_visible = FALSE
    /\ queue = <<>>
    /\ wsState = "Idle"
    /\ current = "none"
    /\ arrived = <<>>
    /\ done = <<>>
    /\ loopEntered = FALSE
    /\ exitCode = NoExit

----------------------------------------------------------------------------
\* main(), lines 545-554: the QApplication is created and the constructor of
\* the window is entered.
MainStart ==
    /\ pc = "start"
    /\ pc' = InitSteps[1]
    /\ UNCHANGED <<env, window, loop, loopEntered, exitCode>>

\* RaiseInInit with the exception caught around the constructor and main()
\* going on to show the window and run the event loop.
RaiseSwallowed ==
    /\ pc \in InitStepSet
    /\ faultAt = pc
    /\ pc' = "shown"
    /\ UNCHANGED <<env, window, loop, loopEntered, exitCode>>

\* An init step raises.  Nothing in __init__ or main() catches it (the only
\* handler, line 106, is for the ImportError of the optional import), so it
\* leaves main() before window.show() and app.exec(); sys.exit is not reached
\* and the interpreter ends with status 1.
RaiseInInit ==
    /\ pc \in InitStepSet
    /\ faultAt = pc
    /\ pc' = "aborted"
    /\ exitCode' = 1
    /\ UNCHANGED <<env, window, loop, loopEntered>>

\* The surface init_ribbon_interface installs: the ribbon when the import of
\* line 58 succeeds, the toolbar of init_fallback_toolbar on ImportError.
SurfaceFor(importable) == IF importable THEN "ribbon" ELSE "fallback"

\* The handlers that get a QAction on a surface.
SurfaceHandlers(s) ==
    CASE s = "ribbon"   -> RibbonHandlers
      [] s = "fallback" -> FallbackHandlers
      [] OTHER          -> {}

init_ribbon_interface ==
    /\ pc = "init_ribbon_interface"
    /\ faultAt # pc
    /\ surface' = SurfaceFor(ribbonImportable)
    /\ installed' = SurfaceHandlers(SurfaceFor(ribbonImportable))
    /\ pc' = "init_workspace"
    /\ UNCHANGED <<env, splitterSizes, status_label, progress_visible, loop,
                   loopEntered, exitCode>>

\* init_workspace loading the persisted record first and raising a
\* LayoutPersistenceError when it is missing or corrupt.
init_workspace_LoadsRecord ==
    /\ pc = "init_workspace"
    /\ faultAt # pc
    /\ IF layoutRecord = "present"
       THEN /\ splitterSizes' = DefaultSizes
            /\ pc' = "init_status_system"
            /\ UNCHANGED exitCode
       ELSE /\ pc' = "aborted"
            /\ exitCode' = 1
            /\ UNCHANGED splitterSizes
    /\ UNCHANGED <<env, surface, installed, status_label, progress_visible,
                   loop, loopEntered>>

\* init_workspace builds the three panels and sets the splitter sizes; it
\* reads no persisted record.
init_workspace ==
    /\ pc = "init_workspace"
    /\ faultAt # pc
    /\ splitterSizes' = DefaultSizes
    /\ pc' = "init_status_system"
    /\ UNCHANGED <<env, surface, installed, status_label, progress_visible,
                   loop, loopEntered, exitCode>>

init_status_system ==
    /\ pc = "init_status_system"
    /\ faultAt # pc
    /\ status_label' = "Ready"
    /\ progress_visible' = FALSE
    /\ pc' = "init_themes"
    /\ UNCHANGED <<env, surface, installed, splitterSizes, loop, loopEntered,
                   exitCode>>

init_themes ==
    /\ pc = "init_themes"
    /\ faultAt # pc
    /\ pc' = "constructed"
    /\ UNCHANGED <<env, window, loop, loopEntered, exitCode>>

\* window.show(), line 555.
Show ==
    /\ pc = "constructed"
    /\ pc' = "shown"
    /\ UNCHANGED <<env, window, loop, loopEntered, exitCode>>

\* app.exec(), line 557: the event loop is entered.
Exec ==
    /\ pc = "shown"
    /\ pc' = "running"
    /\ loopEntered' = TRUE
    /\ UNCHANGED <<env, window, loop, exitCode>>

\* The user activates a QAction of the installed surface; the activation is
\* posted to the GUI thread's event queue, also while a handler is running.
Trigger(h) ==
    /\ pc = "running"
    /\ h \in installed
    /\ Len(arrived) < MaxEvents
    /\ queue' = Append(queue, h)
    /\ arrived' = Append(arrived, h)
    /\ UNCHANGED <<pc, env, window, wsState, current, done, loopEntered, exitCode>>

\* CanDeliver of a handler that re-enters the event loop (processEvents):
\* the next activation is delivered while the handler is still running.
CanDeliverReentrant == TRUE

\* The event loop delivers an event only when it is not inside a handler: the
\* handlers run on the GUI thread and none of them re-enters the loop.
CanDeliver == wsState = "Idle"

\* The event loop delivers the oldest activation: triggered calls the
\* connected callback (line 469), which executes its first statement, the
\* setText of the status label.
Dispatch ==
    /\ pc = "running"
    /\ CanDeliver
    /\ queue # <<>>
    /\ current' = Head(queue)
    /\ queue' = Tail(queue)
    /\ wsState' = "Dispatching"
    /\ status_label' = StatusText(Head(queue))
    /\ UNCHANGED <<pc, env, surface, installed, splitterSizes, progress_visible,
                   arrived, done, loopEntered, exitCode>>

\* The handler executes the rest of its body and returns to the event loop.
Finish ==
    /\ pc = "running"
    /\ wsState = "Dispatching"
    /\ progress_visible' = ProgressAfter(current, progress_visible)
    /\ done' = Append(done, current)
    /\ current' = "none"
    /\ wsState' = "Idle"
    /\ UNCHANGED <<pc, env, surface, installed, splitterSizes, status_label,
                   queue, arrived, loopEntered, exitCode>>

\* The window is closed: the close event is delivered by the idle event loop
\* after the activations posted before it, app.exec() returns 0 and main()
\* hands it to sys.exit (lines 557, 561).
Close ==
    /\ pc = "running"
    /\ wsState = "Idle"
    /\ queue = <<>>
    /\ pc' = "exited"
    /\ exitCode' = 0
    /\ UNCHANGED <<env, window, loop, loopEntered>>

Next ==
    \/ MainStart
    \/ RaiseInInit
    \/ init_ribbon_interface
    \/ init_workspace
    \/ init_status_system
    \/ init_themes
    \/ Show
    \/ Exec
    \/ \E h \in Handlers : Trigger(h)
    \/ Dispatch
    \/ Finish
    \/ Close

Spec == Init /\ [][Next]_vars

----------------------------------------------------------------------------
\* The same program with no bound on the number of activations: the history
\* variables arrived and done are left empty, and only the length of the
\* event queue is bounded.

\* Trigger without the history of arrivals.
TriggerQ(h) ==
    /\ pc = "running"
    /\ h \in installed
    /\ Len(queue) < MaxQueue
    /\ queue' = Append(queue, h)
    /\ UNCHANGED <<pc, env, window, wsState, current, arrived, done,
                   loopEntered, exitCode>>

\* Finish without the history of returns.
FinishQ ==
    /\ pc = "running"
    /\ wsState = "Dispatching"
    /\ progress_visible' = ProgressAfter(current, progress_visible)
    /\ current' = "none"
    /\ wsState' = "Idle"
    /\ UNCHANGED <<pc, env, surface, installed, splitterSizes, status_label,
                   queue, arrived, done, loopEntered, exitCode>>

NextQ ==
    \/ MainStart
    \/ RaiseInInit
    \/ init_ribbon_interface
    \/ init_workspace
    \/ init_status_system
    \/ init_themes
    \/ Show
    \/ Exec
    \/ \E h \in Handlers : TriggerQ(h)
    \/ Dispatch
    \/ FinishQ
    \/ Close

\* The event loop delivers a waiting activation and a running handler
\* returns (weak fairness).  Strong fairness of the user's activation of Stop
\* is what turns "a state with the bar hidden can be reached" into a
\* property of behaviours: it holds of every state exactly when every fair
\* behaviour through the state reaches such a state.
FairSpec ==
    /\ Init
    /\ [][NextQ]_vars
    /\ WF_vars(Dispatch)
    /\ WF_vars(FinishQ)
    /\ SF_vars(TriggerQ("stop_simulation"))

----------------------------------------------------------------------------
\* Helpers of the properties below.

\* The handler inside which the GUI thread is, as a sequence of length 0 or 1.
InFlight == IF current = "none" THEN <<>> ELSE <<current>>

\* States in which __init__ has returned.
Constructed == pc \in {"constructed", "shown", "running", "exited"}

\* States in which init_workspace has returned without raising.
WorkspaceBuilt ==
    pc \in {"init_status_system", "init_themes", "constructed", "shown",
            "running", "exited"}

\* One step enters a handler; one step returns from it.
HandlerEntered == wsState = "Idle" /\ wsState' = "Dispatching"
HandlerReturned == wsState = "Dispatching" /\ wsState' = "Idle"

\* The window and process state other than the status text and the progress bar.
otherState == <<pc, env, surface, installed, splitterSizes, loopEntered, exitCode>>

\* In log, start_simulation occurs with no stop_simulation after it.
SimActive(log) ==
    \E i \in 1..Len(log) :
        /\ log[i] = "start_simulation"
        /\ \A j \in (i + 1)..Len(log) : log[j] # "stop_simulation"

----------------------------------------------------------------------------
\* C2: handler executions never overlap.  The window is inside a handler
\* exactly when it is Dispatching, and inside one handler only; the posted
\* activations are the returned handlers, then the running one, then the
\* waiting ones, in arrival order; an activation posted while Dispatching is
\* appended to the queue and touches neither the running handler nor the
\* status text or the progress bar; and the only other step out of a
\* Dispatching state is the return of the running handler to Idle.
C2_SingleFlight ==
    /\ [](wsState \in {"Idle", "Dispatching"})
    /\ []((wsState = "Dispatching") <=> (current \in Handlers))
    /\ []((wsState = "Idle") <=> (current = "none"))
    /\ [](arrived = done \o InFlight \o queue)
    /\ [][wsState = "Dispatching" =>
            \/ /\ wsState' = "Idle"
               /\ done' = Append(done, current)
               /\ UNCHANGED <<queue, arrived>>
            \/ /\ arrived' # arrived
               /\ queue' = Append(queue, arrived'[Len(arrived')])
               /\ UNCHANGED <<wsState, current, done, status_label,
                              progress_visible>>]_vars

\* C2 witness: a handler has returned, another is running, and an activation
\* that arrived meanwhile is waiting in the queue.
C2_Witness ==
    /\ wsState = "Dispatching"
    /\ Len(done) >= 1
    /\ Len(queue) >= 1

\* C4 (as claimed): once the window is constructed exactly one surface is
\* installed, the ribbon exactly when pyqtribbon is importable, and the
\* installed surface exposes the same set of handlers whichever it is: all
\* the command handlers of the window.
C4_SameHandlersOnBothSurfaces ==
    Constructed =>
        /\ surface \in {"ribbon", "fallback"}
        /\ (surface = "ribbon") <=> ribbonImportable
        /\ installed = Handlers

\* C5 (as claimed): every handler, the three simulation handlers included,
\* sets the status label to its message and changes nothing else, the
\* visibility of the progress bar included.
C5_StatusTextOnly ==
    [][/\ HandlerEntered =>
            /\ status_label' = StatusText(current')
            /\ UNCHANGED <<progress_visible, otherState>>
       /\ HandlerReturned =>
            UNCHANGED <<status_label, progress_visible, otherState>>]_vars

\* C5 (amended): every handler sets the status label to its message and
\* changes nothing else, except that start_simulation also shows the
\* progress bar and stop_simulation also hides it.
C5_StatusTextOnlyExceptShowHide ==
    [][/\ HandlerEntered =>
            /\ status_label' = StatusText(current')
            /\ UNCHANGED <<progress_visible, otherState>>
       /\ HandlerReturned =>
            /\ UNCHANGED <<status_label, otherState>>
            /\ progress_visible' =
                 CASE current = "start_simulation" -> TRUE
                   [] current = "stop_simulation"  -> FALSE
                   [] OTHER                        -> progress_visible]_vars

\* C5 witness: a handler other than start/stop has run and returned while
\* the progress bar was visible, and the bar is still visible.
C5_Witness ==
    /\ wsState = "Idle"
    /\ Len(done) = 2
    /\ done[1] = "start_simulation"
    /\ done[2] \notin {"start_simulation", "stop_simulation"}
    /\ status_label = StatusText(done[2])
    /\ progress_visible

\* C8: with the persisted layout record missing or corrupt, the workspace
\* is built with the default splitter sizes 300/1000/300, and startup is not
\* aborted unless some init step raises for another reason.
C8_DefaultLayoutWithoutRecord ==
    layoutRecord \in {"missing", "corrupt"} =>
        /\ WorkspaceBuilt => splitterSizes = DefaultSizes
        /\ faultAt = "none" => pc # "aborted"
        /\ faultAt = "none" => exitCode \in {NoExit, 0}

\* C8 witness: the record is missing and the event loop runs on a workspace
\* with the default sizes.
C8_Witness ==
    /\ layoutRecord = "missing"
    /\ pc = "running"
    /\ splitterSizes = DefaultSizes

\* C9: the event loop is entered only after the workspace is constructed;
\* the process exits with 0 after a close of the window and with a non-zero
\* status when an init step fails, and after a failed init step the event
\* loop is never entered.
C9_ExitCode ==
    /\ loopEntered =>
          /\ surface # "none"
          /\ splitterSizes = DefaultSizes
          /\ status_label # ""
    /\ pc = "exited" => exitCode = 0 /\ loopEntered /\ faultAt = "none"
    /\ pc = "aborted" => exitCode \notin {0, NoExit} /\ faultAt # "none"
    /\ faultAt # "none" => ~loopEntered /\ pc \notin {"shown", "running", "exited"}
    /\ pc \notin {"exited", "aborted"} => exitCode = NoExit

\* C9 witness: init_workspace raised after the command surface had been
\* installed, and the process has ended with status 1.
C9_Witness ==
    /\ pc = "aborted"
    /\ faultAt = "init_workspace"
    /\ surface # "none"
    /\ exitCode = 1

\* C10: the progress bar is visible exactly when start_simulation has
\* returned with no stop_simulation after it; the status label, once it
\* exists, holds the message of the handler that is running, else of the
\* handler that returned last, else "Ready".
C10_ProgressIffSimulationActive ==
    /\ progress_visible <=> SimActive(done)
    /\ Constructed => status_label # ""
    /\ status_label # "" =>
          status_label =
              IF current # "none" THEN StatusText(current)
              ELSE IF done = <<>> THEN "Ready"
              ELSE StatusText(done[Len(done)])

\* C10 witness: start, stop and pause have run in this order; the bar is
\* hidden again and the label holds the message of pause_simulation.
C10_Witness ==
    /\ wsState = "Idle"
    /\ done = <<"start_simulation", "stop_simulation", "pause_simulation">>
    /\ ~progress_visible
    /\ status_label = "Simulation paused"

\* Every activation waiting in q is of a handler in S.
AllIn(q, S) == \A i \in 1..Len(q) : q[i] \in S

\* C11: with the fallback toolbar installed only its seven handlers are ever
\* posted or run, and the progress bar, once visible, is visible in every
\* later state; with the ribbon installed, from every state in which the bar
\* is visible a state in which it is hidden is reached again (by an
\* activation of Stop), unless the window is closed first.
C11_FallbackNeverHidesRibbonCan ==
    /\ [](surface = "fallback" =>
            /\ installed = { "new_file", "open_file", "save_file",
                             "create_2d_profile", "create_3d_profile",
                             "auto_nest", "start_simulation" }
            /\ AllIn(queue, installed)
            /\ current \in installed \cup {"none"}
            /\ current \notin {"stop_simulation", "pause_simulation"})
    /\ [][surface = "fallback" /\ progress_visible => progress_visible']_vars
    /\ (surface = "ribbon" /\ progress_visible)
          ~> (~progress_visible \/ pc = "exited")

\* C11 witness: on the fallback toolbar start_simulation has run, auto_nest
\* has run after it, and the progress bar is still visible.
C11_Witness ==
    /\ surface = "fallback"
    /\ wsState = "Idle"
    /\ progress_visible
    /\ status_label = StatusText("auto_nest")

====
